---- MODULE Spec2Model ----
(***************************************************************************)
(* nsft_cache_utils/dir.py: a filesystem-backed directory cache with a     *)
(* time-to-live.  One cache key (module_filename, cache_id) is modelled,   *)
(* with its slot directory (cache_dir) and the caller's target directory   *)
(* (dir).  A directory is the set of its entries, each with its content;   *)
(* the slot also carries its own modification time, which the filesystem   *)
(* sets whenever an entry of the directory is created or removed (and not  *)
(* when an existing file is rewritten or touched).                         *)
(*                                                                         *)
(* Specifications:                                                         *)
(*   Spec       whole calls on the one key, on a healthy filesystem;       *)
(*   SpecFault  the same calls on a filesystem that may refuse writes, and *)
(*              with providers of every kind;                              *)
(*   SpecAlias  calls whose target directory is the slot itself;           *)
(*   SpecKeys   the providers alone, over several keys;                    *)
(*   SpecConc   two processes running create_dir_content_cached on the     *)
(*              key step by step, without a lock.                          *)
(***************************************************************************)
EXTENDS Integers, Sequences, FiniteSets, TLC

\* ------------------------------------------------------------- bounds
\* The clock runs over 0..MaxTime (seconds).
MaxTime == 2
\* Calls of obtain_cache_dir / create_dir_content_cached in one behaviour.
MaxCalls == 3

\* ---------------------------------------------------- program constants
\* stale_after_s: Optional[float] = None
NoneS == -1
\* stale_after_s = 60 * 30
DefaultStaleAfterS == 1800
\* if 30 != e.errno  (EROFS, read-only file system)
EROFS == 30
\* An errno that is not 30: EACCES, permission denied.
EACCES == 13

\* ".nsft-cache-last-accessed-token"
Sentinel == ".nsft-cache-last-accessed-token"
\* ".nsft-cache-info"
InfoName == ".nsft-cache-info"
\* The key of the one slot modelled.
ModuleFilename == "/m/test_mod.py"
CacheId == "gen_fn"
\* f"{module_filename}::{cache_id}"
InfoLine == ModuleFilename \o "::" \o CacheId

\* ------------------------------------------------------ the filesystem
\* Entry names: two files a generation may write, one file of the caller's
\* that no generation writes, and the two bookkeeping files.
Names == {"a", "b", "old", Sentinel, InfoName}
NoFile == "<no file>"
EmptyFiles == [n \in Names |-> NoFile]

\* A missing directory and an existing empty one (the target carries no mtime:
\* the code never reads it).
NoDir == [exists |-> FALSE, files |-> EmptyFiles]
EmptyDir == [exists |-> TRUE, files |-> EmptyFiles]
NoSlot == [exists |-> FALSE, files |-> EmptyFiles, mtime |-> 0]

\* cache_dir.mkdir(): a new empty directory, modified now.
Mkdir(t) == [exists |-> TRUE, files |-> EmptyFiles, mtime |-> t]

\* touch(path): create the file empty if missing (a new entry: the directory
\* is modified), else only the file's own mtime changes.
touch_file(s, name, t) ==
    IF s.files[name] # NoFile
    THEN s
    ELSE [s EXCEPT !.files[name] = "", !.mtime = t]

\* path.unlink(): the entry is removed, the directory is modified.
Unlink(s, name, t) == [s EXCEPT !.files[name] = NoFile, !.mtime = t]

\* write_lines(path, lines): the file holds the lines; a new entry modifies
\* the directory, a rewrite does not.
write_file_content(s, name, line, t) ==
    [s EXCEPT !.files[name] = line,
              !.mtime = IF s.files[name] = NoFile THEN t ELSE s.mtime]

CacheDirState(path, valid) == [path |-> path, valid |-> valid]

\* ----------------------------------------------------------- providers
\* The path of the one slot, and no path.
CacheDir == "cache_dir"
NonePath == "None"

\* DefaultCacheDirProvider.mk_cache_dir: the slot's path; valid iff it exists.
DefaultCacheDirProvider_mk_cache_dir(s) == CacheDirState(CacheDir, s.exists)

\* DisabledCacheDirProvider.mk_cache_dir
DisabledCacheDirProvider_mk_cache_dir(s) == CacheDirState(NonePath, FALSE)

\* An ICacheDirProvider that breaks the contract: no path, yet valid.
BrokenCacheDirProvider_mk_cache_dir(s) == CacheDirState(NonePath, TRUE)

Providers == {"default", "disabled", "broken"}

\* cache_dir_provider.mk_cache_dir(module_filename, cache_id)
mk_cache_dir(provider, s) ==
    IF provider = "disabled"
    THEN DisabledCacheDirProvider_mk_cache_dir(s)
    ELSE IF provider = "broken"
    THEN BrokenCacheDirProvider_mk_cache_dir(s)
    ELSE DefaultCacheDirProvider_mk_cache_dir(s)

\* ------------------------------------------------------ obtain_cache_dir
\* if stale_after_s is None: stale_after_s = 60 * 30
EffectiveStaleAfter(stale_after_s) ==
    IF stale_after_s = NoneS THEN DefaultStaleAfterS ELSE stale_after_s

\* cache_dir.mkdir(parents=True, exist_ok=True); touch_file(token)
EnsureSlot(s, t) ==
    touch_file(IF s.exists THEN s ELSE Mkdir(t), Sentinel, t)

\* A provider's answer without a path that is accepted whatever its flag.
CheckNoPathUnasserted(prov) == "none"

\* if prov_dir_state.path is None: assert not prov_dir_state.valid
CheckNoPath(prov) == IF prov.valid THEN "AssertionError" ELSE "none"

\* A creation that fails only where the directory has to be made.
CreationFailsOnMkdirOnly(s, errno) == errno # 0 /\ ~s.exists

\* try: cache_dir.mkdir(parents=True, exist_ok=True); touch_file(token)
\* On a filesystem that answers writes with errno, the mkdir of a missing
\* directory raises, and so does the touch in an existing one.
CreationFails(s, errno) == errno # 0

\* A handler that re-raises every OSError.
HandleOSErrorRaising(errno) == "OSError"

\* A handler that swallows every OSError.
HandleOSErrorAny(errno) == "none"

\* except OSError as e: if 30 != e.errno: raise; return CacheDirState(None, False)
HandleOSError(errno) == IF errno # EROFS THEN "OSError" ELSE "none"

\* A fresh slot returned with the sentinel still in it.
FreshSlotKeepingToken(s, t) == s

\* if not cache_dir_exists: cache_last_accessed_token.unlink()
FreshSlot(s, t) == Unlink(s, Sentinel, t)

\* A staleness test that still holds at the instant of expiry.
IsFreshInclusive(current_time_s, cache_mtime_s, stale_after_s) ==
    current_time_s <= cache_mtime_s + stale_after_s

\* A staleness test that forgets the time-to-live.
IsFreshWithoutTtl(current_time_s, cache_mtime_s, stale_after_s) ==
    current_time_s < cache_mtime_s

\* current_time_s < cache_mtime_s + stale_after_s
IsFresh(current_time_s, cache_mtime_s, stale_after_s) ==
    current_time_s < cache_mtime_s + stale_after_s

\* shutil.rmtree(cache_dir); cache_dir.mkdir()
RecreateSlot(s, t) == Mkdir(t)

\* What a call of obtain_cache_dir at time t leaves and returns:
\*   state  the CacheDirState returned (meaningless when err is set),
\*   err    "none", or the exception the call raises,
\*   slot   the slot directory after the call,
\*   prov   what the provider answered,
\*   mtime  the slot's st_mtime as the call read it (-1: not read).
obtain_cache_dir(provider, stale_after_s, s, t, errno) ==
    LET prov == mk_cache_dir(provider, s)
        stale == EffectiveStaleAfter(stale_after_s)
        ensured == EnsureSlot(s, t)
        out(state, err, slot, mtime) ==
            [state |-> state, err |-> err, slot |-> slot, prov |-> prov,
             mtime |-> mtime]
    IN  IF prov.path = NonePath
        THEN out(CacheDirState(NonePath, FALSE), CheckNoPath(prov), s, -1)
        ELSE IF CreationFails(s, errno)
        THEN out(CacheDirState(NonePath, FALSE), HandleOSError(errno), s, -1)
        ELSE IF ~prov.valid
        THEN out(CacheDirState(prov.path, FALSE), "none", FreshSlot(ensured, t), -1)
        ELSE IF ~(ensured.mtime <= t)
        THEN out(CacheDirState(NonePath, FALSE), "AssertionError", ensured,
                 ensured.mtime)
        ELSE IF IsFresh(t, ensured.mtime, stale)
        THEN out(CacheDirState(prov.path, TRUE), "none", ensured, ensured.mtime)
        ELSE out(CacheDirState(prov.path, FALSE), "none",
                 RecreateSlot(ensured, t), ensured.mtime)

\* --------------------------------------------- create_dir_content_cached
\* A run of the caller's create_dir_content_fn: the entries it writes into the
\* directory it is given, and whether it returns (ok) or raises after writing
\* them.  The callback is opaque: these are a small and a larger output, and
\* two runs that raise part-way.
GenRuns ==
    { [out |-> [EmptyFiles EXCEPT !["a"] = "v1"], ok |-> TRUE],
      [out |-> [EmptyFiles EXCEPT !["a"] = "v2", !["b"] = "v2"], ok |-> TRUE],
      [out |-> [EmptyFiles EXCEPT !["a"] = "v2"], ok |-> FALSE],
      [out |-> EmptyFiles, ok |-> FALSE] }

\* The entries a run wrote, over those the directory held.
Overlay(files, out) ==
    [n \in Names |-> IF out[n] # NoFile THEN out[n] ELSE files[n]]

\* create_dir_content_fn(cache_state.path): the run writes into the slot.
GenerateInSlot(s, run, t) ==
    [s EXCEPT !.files = Overlay(s.files, run.out),
              !.mtime = IF run.out = EmptyFiles THEN s.mtime ELSE t]

\* create_dir_content_fn(dir): the run writes into the target; a run that
\* writes nothing does not create a missing target.
GenerateInDir(tg, run) ==
    IF ~tg.exists /\ run.out = EmptyFiles /\ ~run.ok
    THEN tg
    ELSE [exists |-> TRUE, files |-> Overlay(tg.files, run.out)]

\* The seconds a run of create_dir_content_fn takes: none, or some.
GenTimes == {0, 1}

\* copy_ignore_fn: the names a copy leaves out (none without a filter).
IgnoreChoices == { {}, {"b"} }

\* shutil.copytree(cache_state.path, dir, ignore=copy_ignore_fn)
Copytree(s, ignore) ==
    [exists |-> TRUE,
     files |-> [n \in Names |-> IF n \in ignore THEN NoFile ELSE s.files[n]]]

\* A replacement that copies over dir without removing it first.
ReplaceDirMerging(tg, s, ignore) ==
    [exists |-> TRUE,
     files |-> [n \in Names |-> IF n \in ignore \/ s.files[n] = NoFile
                                THEN tg.files[n] ELSE s.files[n]]]

\* shutil.rmtree(dir); shutil.copytree(cache_state.path, dir, ...)
ReplaceDir(tg, s, ignore) == Copytree(s, ignore)

\* cache_info = ".nsft-cache-info"; write_file_content(cache_info, [...])
WriteCacheInfo(s, t) == write_file_content(s, InfoName, InfoLine, t)

\* The names of the steps a call performs, as logged in ops.
OpGenSlot == "create_dir_content_fn(cache_dir)"
OpGenDir == "create_dir_content_fn(dir)"
OpInfo == "write_file_content(.nsft-cache-info)"
OpRmtree == "rmtree(dir)"
OpCopy == "copytree(cache_dir, dir)"

\* What the steps after obtain_cache_dir leave: the exception raised ("none":
\* the call returns), the steps started, in order (the last one is the one
\* that raised), the slot and the target afterwards, and the number of calls
\* of create_dir_content_fn.
Outcome(err, ops, slot, dir, gen) ==
    [err |-> err, ops |-> ops, slot |-> slot, dir |-> dir, gen |-> gen]

\* A hit whose removal of dir tolerates a missing dir.
HitPathIgnoringMissing(s, tg, ignore) ==
    Outcome("none", <<OpRmtree, OpCopy>>, s, ReplaceDir(tg, s, ignore), 0)

\* if cache_state.valid: rmtree(dir); copytree(cache_state.path, dir); return
HitPath(s, tg, ignore) ==
    IF ~tg.exists
    THEN Outcome("FileNotFoundError", <<OpRmtree>>, s, tg, 0)
    ELSE Outcome("none", <<OpRmtree, OpCopy>>, s, ReplaceDir(tg, s, ignore), 0)

\* A pass-through that empties dir before generating into it.
NoCachePathReplacing(s, tg, run) ==
    Outcome(IF run.ok THEN "none" ELSE "GenerateError", <<OpRmtree, OpGenDir>>,
            s, GenerateInDir(EmptyDir, run), 1)

\* if cache_state.path is None: create_dir_content_fn(dir); return
NoCachePath(s, tg, run) ==
    Outcome(IF run.ok THEN "none" ELSE "GenerateError", <<OpGenDir>>,
            s, GenerateInDir(tg, run), 1)

\* A miss that copies the slot into dir before writing the provenance file.
MissPathCopyFirst(s, tg, run, ignore, t) ==
    LET generated == GenerateInSlot(s, run, t)
        informed == WriteCacheInfo(generated, t)
    IN  IF ~run.ok
        THEN Outcome("GenerateError", <<OpGenSlot>>, generated, tg, 1)
        ELSE IF ~tg.exists
        THEN Outcome("FileNotFoundError", <<OpGenSlot, OpRmtree>>, generated, tg, 1)
        ELSE Outcome("none", <<OpGenSlot, OpRmtree, OpCopy, OpInfo>>, informed,
                     ReplaceDir(tg, generated, ignore), 1)

\* A miss that moves the slot to dir instead of copying it.
MissPathMovingSlot(s, tg, run, ignore, t) ==
    LET generated == GenerateInSlot(s, run, t)
        informed == WriteCacheInfo(generated, t)
    IN  IF ~run.ok
        THEN Outcome("GenerateError", <<OpGenSlot>>, generated, tg, 1)
        ELSE IF ~tg.exists
        THEN Outcome("FileNotFoundError", <<OpGenSlot, OpInfo, OpRmtree>>,
                     informed, tg, 1)
        ELSE Outcome("none", <<OpGenSlot, OpInfo, OpRmtree, OpCopy>>, NoSlot,
                     ReplaceDir(tg, informed, ignore), 1)

\* create_dir_content_fn(cache_state.path); write the provenance file;
\* rmtree(dir); copytree(cache_state.path, dir).  The generation ends at t.
MissPath(s, tg, run, ignore, t) ==
    LET generated == GenerateInSlot(s, run, t)
        informed == WriteCacheInfo(generated, t)
    IN  IF ~run.ok
        THEN Outcome("GenerateError", <<OpGenSlot>>, generated, tg, 1)
        ELSE IF ~tg.exists
        THEN Outcome("FileNotFoundError", <<OpGenSlot, OpInfo, OpRmtree>>,
                     informed, tg, 1)
        ELSE Outcome("none", <<OpGenSlot, OpInfo, OpRmtree, OpCopy>>, informed,
                     ReplaceDir(tg, informed, ignore), 1)

\* The hit path when dir is the slot directory itself: rmtree(dir) removes
\* the slot, and copytree finds no source.
HitPathOnSlot(s, tg) ==
    Outcome("FileNotFoundError", <<OpRmtree, OpCopy>>, NoSlot, tg, 0)

\* The miss path when dir is the slot directory itself.
MissPathOnSlot(s, tg, run, t) ==
    LET generated == GenerateInSlot(s, run, t)
    IN  IF ~run.ok
        THEN Outcome("GenerateError", <<OpGenSlot>>, generated, tg, 1)
        ELSE Outcome("FileNotFoundError", <<OpGenSlot, OpInfo, OpRmtree, OpCopy>>,
                     NoSlot, tg, 1)

\* create_dir_content_cached(module_filename, dir, ...) with the default
\* provider and dir the path of the slot; tg is the directory the other
\* calls use as their target, which this call leaves alone.
create_dir_content_cached_on_slot(stale_after_s, run, d, s, tg, t, errno) ==
    LET o == obtain_cache_dir("default", stale_after_s, s, t, errno)
    IN  IF o.err # "none"
        THEN [o |-> o, kind |-> "none", time |-> t,
              r |-> Outcome(o.err, << >>, o.slot, tg, 0)]
        ELSE IF o.state.valid
        THEN [o |-> o, kind |-> "hit", time |-> t,
              r |-> HitPathOnSlot(o.slot, tg)]
        ELSE [o |-> o, kind |-> "miss", time |-> t + d,
              r |-> MissPathOnSlot(o.slot, tg, run, t + d)]

\* What a call of create_dir_content_cached at time t leaves:
\*   o      the result of its obtain_cache_dir call,
\*   kind   the resolved state: "hit", "miss", "nocache" ("none": obtain raised),
\*   r      the outcome of the steps that follow,
\*   time   the clock when the call ends (a generation takes d seconds).
create_dir_content_cached(provider, stale_after_s, ignore, run, d, s, tg, t, errno) ==
    LET o == obtain_cache_dir(provider, stale_after_s, s, t, errno)
    IN  IF o.err # "none"
        THEN [o |-> o, kind |-> "none", time |-> t,
              r |-> Outcome(o.err, << >>, o.slot, tg, 0)]
        ELSE IF o.state.valid
        THEN [o |-> o, kind |-> "hit", time |-> t,
              r |-> HitPath(o.slot, tg, ignore)]
        ELSE IF o.state.path = NonePath
        THEN [o |-> o, kind |-> "nocache", time |-> t + d,
              r |-> NoCachePath(o.slot, tg, run)]
        ELSE [o |-> o, kind |-> "miss", time |-> t + d,
              r |-> MissPath(o.slot, tg, run, ignore, t + d)]

\* ---------------------------------------------------------- cache identity
\* Module files, as Path objects: the containing directory and the stem of
\* the file name; cache ids, as the strings obtain_cache_dir accepts.
ModuleFiles ==
    { [parent |-> "/m", stem |-> "t"], [parent |-> "/m", stem |-> "t.py-a"] }
CacheIds == {"gen", "a.py-gen"}
Keys == [module_filename : ModuleFiles, cache_id : CacheIds]

\* str(module_filename)
PathStr(module_filename) ==
    module_filename.parent \o "/" \o module_filename.stem \o ".py"

\* hashlib.sha256(s.encode()).hexdigest()[0:12], taken as injective: the
\* digest of a string is a tag that names the string.
Sha256Hex12(s) == "sha256:" \o s

\* composed_str = f"nsft-{module_filename}-{cache_id}"; its hash.
mk_unique_cache_str_for(module_filename, cache_id) ==
    Sha256Hex12("nsft-" \o PathStr(module_filename) \o "-" \o cache_id)

\* module_dir.joinpath("__pycache__", "nsft", unique_hashed_str)
DefaultSlotPath(module_filename, cache_id) ==
    module_filename.parent \o "/__pycache__/nsft/"
        \o mk_unique_cache_str_for(module_filename, cache_id)

\* DefaultCacheDirProvider.mk_cache_dir for any key, over the set ds of the
\* directories that exist.
DefaultCacheDirProvider_mk_cache_dir_for(module_filename, cache_id, ds) ==
    LET cache_dir == DefaultSlotPath(module_filename, cache_id)
    IN  CacheDirState(cache_dir, cache_dir \in ds)

\* cache_key = f"nsft-cache/{module_name}/{cache_id}/{unique_hashed_str}"
PyTestCacheKey(module_filename, cache_id) ==
    "nsft-cache/" \o module_filename.stem \o "/" \o cache_id \o "/"
        \o mk_unique_cache_str_for(module_filename, cache_id)

\* request.config.cache.makedir(name): the directory d/<name> of the store.
PyTestMakedirPath(name) == ".pytest_cache/d/" \o name

\* hashed_dir_name = f"nsft-{unique_hashed_str}"; its directory in the store.
PyTestDirPath(module_filename, cache_id) ==
    PyTestMakedirPath("nsft-" \o mk_unique_cache_str_for(module_filename, cache_id))

CacheKeys == { PyTestCacheKey(k.module_filename, k.cache_id) : k \in Keys }
NoStore == [k \in CacheKeys |-> NonePath]

\* A provider that trusts the recorded path without looking for it.
PyTestCacheDirProvider_trusting(module_filename, cache_id, st, ds) ==
    LET cache_key == PyTestCacheKey(module_filename, cache_id)
        existing == st[cache_key]
        cache_dir == PyTestDirPath(module_filename, cache_id)
    IN  IF existing # NonePath
        THEN [state |-> CacheDirState(existing, TRUE), store |-> st, dirs |-> ds]
        ELSE [state |-> CacheDirState(cache_dir, FALSE),
              store |-> [st EXCEPT ![cache_key] = cache_dir],
              dirs |-> ds \cup {cache_dir}]

\* PyTestCacheDirProvider.mk_cache_dir over the store st (config.cache) and
\* the set ds of the directories that exist: the state returned, and the
\* store and the directories afterwards.
PyTestCacheDirProvider_mk_cache_dir(module_filename, cache_id, st, ds) ==
    LET cache_key == PyTestCacheKey(module_filename, cache_id)
        existing == st[cache_key]
        cache_dir == PyTestDirPath(module_filename, cache_id)
    IN  IF existing # NonePath /\ existing \in ds
        THEN [state |-> CacheDirState(existing, TRUE), store |-> st, dirs |-> ds]
        ELSE [state |-> CacheDirState(cache_dir, FALSE),
              store |-> [st EXCEPT ![cache_key] = cache_dir],
              dirs |-> ds \cup {cache_dir}]

\* ------------------------------------------------------- the state machine
VARIABLES
    now,          \* time.time(), in seconds
    slot,         \* the cache slot directory of the key
    dir,          \* the caller's target directory
    fault,        \* the errno the slot's filesystem answers writes with (0: none)
    ncalls,       \* calls made so far
    genCount,     \* calls of create_dir_content_fn so far
    last,         \* the most recent call: its arguments, what it answered,
                  \*   the entries its create_dir_content_fn wrote (out) and
                  \*   whether dir held content of the caller's before (pre)
    populated,    \* history: when a completed generation populated the slot
                  \*   (at = -1: the slot holds none), and the effective
                  \*   stale_after_s of the call that ran it
    run,          \* history: the current run of successful materializations
    dirTouched,   \* history: the caller changed dir since the last materialization
    store,        \* request.config.cache: cache_key -> recorded path
    fsdirs,       \* the slot directories of the keys of Keys that exist
    plast,        \* the most recent provider call on a key of Keys
    idents,       \* history: the identifiers and default slot paths computed
    procs         \* the processes that run create_dir_content_cached step
                  \*   by step: where each is, its locals and its own target

\* The variables of the calls on the keys of Keys.
keyVars == <<store, fsdirs, plast, idents>>

vars == <<now, slot, dir, fault, ncalls, genCount, last, populated,
          run, dirTouched, store, fsdirs, plast, idents, procs>>

\* stale_after_s as the callers pass it: absent, or a number of seconds.
StaleChoices == {NoneS, 0, 1}

\* The provider and stale_after_s of a call (the disabled provider's calls
\* never read stale_after_s: one value stands for all).
CallArgs ==
    [provider : {"default"}, stale_after_s : StaleChoices]
        \cup [provider : {"disabled"}, stale_after_s : {NoneS}]

\* The copy filters of a call (a call with the disabled provider never
\* copies: one value stands for all).
IgnoreChoicesOf(provider) ==
    IF provider = "default" THEN IgnoreChoices ELSE { {} }

\* What the caller may leave at dir before a call: nothing, an empty
\* directory, or a directory with content of its own.
DirChoices ==
    { NoDir, EmptyDir,
      [exists |-> TRUE, files |-> [EmptyFiles EXCEPT !["old"] = "x", !["a"] = "x"]] }

NoCall ==
    [op |-> "none", provider |-> "default", stale |-> 0, ignore |-> {}, t |-> 0,
     prov |-> CacheDirState(NonePath, FALSE), mtime |-> -1,
     state |-> CacheDirState(NonePath, FALSE), kind |-> "none", err |-> "none",
     ops |-> << >>, out |-> EmptyFiles, pre |-> FALSE, errno |-> 0]

NotPopulated == [at |-> -1, stale |-> 0]

\* Two processes; one that runs no call: its position (pc), the locals of
\* the call (cache_dir_exists, stale_after_s, the verdict), its target
\* directory (tdir), the entries copytree listed and has still to copy
\* (todo), whether a copy failed, the exception raised and the position it
\* was raised at, and as history the
\* slot's entries as the verdict saw them (seen) and whether another process
\* changed the slot since the verdict (disturbed).
Procs == {1, 2}
IdleProc ==
    [pc |-> "idle", exists |-> FALSE, stale |-> 0, verdict |-> "none",
     tdir |-> EmptyDir, todo |-> {}, failed |-> FALSE, err |-> "none",
     at |-> "none",
     seen |-> EmptyFiles, disturbed |-> FALSE]

NoProviderCall ==
    [provider |-> "none", module_filename |-> [parent |-> "", stem |-> ""],
     cache_id |-> "", state |-> CacheDirState(NonePath, FALSE)]

NoRun == [t0 |-> -1, stale |-> 0, gens |-> 0]

Init ==
    /\ now = 0
    /\ slot = NoSlot
    /\ dir = EmptyDir
    /\ fault = 0
    /\ ncalls = 0
    /\ genCount = 0
    /\ last = NoCall
    /\ populated = NotPopulated
    /\ run = NoRun
    /\ dirTouched = FALSE
    /\ store = NoStore
    /\ fsdirs = {}
    /\ plast = NoProviderCall
    /\ idents = {}
    /\ procs = [p \in Procs |-> IdleProc]

\* Time passes.
Tick ==
    /\ now < MaxTime
    /\ now' = now + 1
    /\ UNCHANGED <<slot, dir, fault, ncalls, genCount, last, populated, run,
                   dirTouched, keyVars, procs>>

\* The caller prepares (or removes) its target directory.
CallerSetsDir ==
    /\ \E c \in DirChoices :
         /\ c # dir
         /\ dir' = c
    /\ dirTouched' = TRUE
    /\ UNCHANGED <<now, slot, fault, ncalls, genCount, last, populated, run,
                   keyVars, procs>>

\* Whether a call that answered o created or recreated the slot empty.
Emptied(o) == o.err = "none" /\ o.state.path # NonePath /\ ~o.state.valid

\* A call of obtain_cache_dir on its own, its arguments among args.
ObtainCacheDirWith(args) ==
    /\ ncalls < MaxCalls
    /\ \E a \in args :
         \E provider \in {a.provider}, stale_after_s \in {a.stale_after_s} :
         \E o \in {obtain_cache_dir(provider, stale_after_s, slot, now, fault)} :
             /\ slot' = o.slot
             /\ last' = [op |-> "obtain", provider |-> provider,
                         stale |-> EffectiveStaleAfter(stale_after_s),
                         ignore |-> {}, t |-> now, prov |-> o.prov,
                         mtime |-> o.mtime, state |-> o.state, kind |-> "none",
                         err |-> o.err, ops |-> << >>, out |-> EmptyFiles,
                         pre |-> FALSE, errno |-> fault]
             /\ populated' = IF Emptied(o) THEN NotPopulated ELSE populated
    /\ ncalls' = ncalls + 1
    /\ run' = NoRun
    /\ UNCHANGED <<now, dir, fault, genCount, dirTouched, keyVars, procs>>

ObtainCacheDir == ObtainCacheDirWith(CallArgs)

\* The run of successful materializations after a call: a successful call
\* with the default provider inside the window [t0, t0 + stale) of the run's
\* first call and with the same stale_after_s continues the run; a successful
\* miss outside it starts a run; anything else ends it.
NextRun(c, provider, stale, t) ==
    IF provider = "default" /\ c.r.err = "none" /\ c.kind \in {"hit", "miss"}
    THEN IF run.t0 >= 0 /\ run.stale = stale /\ t < run.t0 + stale
         THEN [run EXCEPT !.gens = run.gens + c.r.gen]
         ELSE IF c.kind = "miss"
         THEN [t0 |-> t, stale |-> stale, gens |-> c.r.gen]
         ELSE NoRun
    ELSE NoRun

\* Whether a call whose obtain_cache_dir answered o runs create_dir_content_fn.
Generates(o) == o.err = "none" /\ ~o.state.valid

\* A run that is never started.
NoGenRun == [out |-> EmptyFiles, ok |-> TRUE]

\* A call of create_dir_content_cached.  The run of create_dir_content_fn and
\* the time it takes are inputs of the calls that start it.
CreateDirContentCachedWith(args) ==
    /\ ncalls < MaxCalls
    /\ \E a \in args :
         \E ignore \in IgnoreChoicesOf(a.provider) :
         \E provider \in {a.provider}, stale_after_s \in {a.stale_after_s} :
         \E o \in {obtain_cache_dir(provider, stale_after_s, slot, now, fault)} :
         \E g \in IF Generates(o) THEN GenRuns ELSE {NoGenRun},
            d \in IF Generates(o) THEN GenTimes ELSE {0} :
         /\ now + d <= MaxTime
         /\ \E c \in {create_dir_content_cached(provider, stale_after_s, ignore,
                                                 g, d, slot, dir, now, fault)},
               stale \in {EffectiveStaleAfter(stale_after_s)} :
                /\ slot' = c.r.slot
                /\ dir' = c.r.dir
                /\ now' = c.time
                /\ genCount' = genCount + c.r.gen
                /\ last' = [op |-> "create", provider |-> provider,
                            stale |-> stale, ignore |-> ignore, t |-> now,
                            prov |-> c.o.prov, mtime |-> c.o.mtime,
                            state |-> c.o.state, kind |-> c.kind,
                            err |-> c.r.err, ops |-> c.r.ops, out |-> g.out,
                            pre |-> dir.files["old"] # NoFile,
                            errno |-> fault]
                /\ populated' = IF c.kind = "miss"
                                 THEN IF g.ok
                                      THEN [at |-> c.time, stale |-> stale]
                                      ELSE NotPopulated
                                 ELSE populated
                /\ run' = NextRun(c, provider, stale, now)
    /\ ncalls' = ncalls + 1
    /\ dirTouched' = FALSE
    /\ UNCHANGED <<fault, keyVars, procs>>

CreateDirContentCached == CreateDirContentCachedWith(CallArgs)

Next ==
    \/ Tick
    \/ CallerSetsDir
    \/ ObtainCacheDir
    \/ CreateDirContentCached

Spec == Init /\ [][Next]_vars

\* ------------------------------------------ a target that is the slot
\* A call of create_dir_content_cached whose dir is the slot directory.
CreateDirContentCachedOnSlot ==
    /\ ncalls < MaxCalls
    /\ \E stale_after_s \in StaleChoices :
         \E o \in {obtain_cache_dir("default", stale_after_s, slot, now, fault)} :
         \E g \in IF Generates(o) THEN GenRuns ELSE {NoGenRun},
            d \in IF Generates(o) THEN GenTimes ELSE {0} :
         /\ now + d <= MaxTime
         /\ \E c \in {create_dir_content_cached_on_slot(stale_after_s, g, d,
                                                         slot, dir, now, fault)} :
                /\ slot' = c.r.slot
                /\ now' = c.time
                /\ genCount' = genCount + c.r.gen
                /\ last' = [op |-> "create_on_slot", provider |-> "default",
                            stale |-> EffectiveStaleAfter(stale_after_s),
                            ignore |-> {}, t |-> now,
                            prov |-> c.o.prov, mtime |-> c.o.mtime,
                            state |-> c.o.state, kind |-> c.kind,
                            err |-> c.r.err, ops |-> c.r.ops, out |-> g.out,
                            pre |-> FALSE, errno |-> fault]
    /\ populated' = NotPopulated
    /\ ncalls' = ncalls + 1
    /\ run' = NoRun
    /\ UNCHANGED <<dir, fault, dirTouched, keyVars, procs>>

NextAlias ==
    \/ Tick
    \/ ObtainCacheDir
    \/ CreateDirContentCached
    \/ CreateDirContentCachedOnSlot

SpecAlias == Init /\ [][NextAlias]_vars

\* ------------------------------------- failing filesystems, any provider
\* The errno the slot's filesystem answers writes with: none, read-only
\* file system, permission denied.
FaultChoices == {0, EROFS, EACCES}

\* The slot's filesystem is remounted or its permissions change.
SetFault ==
    /\ \E e \in FaultChoices :
         /\ e # fault
         /\ fault' = e
    /\ UNCHANGED <<now, slot, dir, ncalls, genCount, last, populated, run,
                   dirTouched, keyVars, procs>>

\* Calls with any provider: the default one (with the default
\* stale_after_s, under which no slot here gets stale, and with 0, under
\* which every slot is), the disabled one, and one that breaks the contract.
AnyCallArgs ==
    [provider : {"default"}, stale_after_s : {NoneS, 0}]
        \cup [provider : {"disabled", "broken"}, stale_after_s : {NoneS}]

\* The clock advances with the generations only.
NextFault ==
    \/ SetFault
    \/ ObtainCacheDirWith(AnyCallArgs)
    \/ CreateDirContentCachedWith(AnyCallArgs)

SpecFault == Init /\ [][NextFault]_vars

\* ------------------------------------------------- providers, any key
\* The variables of the one-slot calls.
slotVars ==
    <<now, slot, dir, fault, genCount, last, populated, run, dirTouched, procs>>

\* A call of DefaultCacheDirProvider.mk_cache_dir on a key.
DefaultMkCacheDir ==
    /\ ncalls < MaxCalls
    /\ \E k \in Keys :
         \E module_filename \in {k.module_filename}, cache_id \in {k.cache_id} :
         \E st \in {DefaultCacheDirProvider_mk_cache_dir_for(module_filename,
                                                              cache_id, fsdirs)} :
            /\ plast' = [provider |-> "default",
                         module_filename |-> module_filename,
                         cache_id |-> cache_id, state |-> st]
            /\ idents' = idents \cup
                   { [module_filename |-> module_filename, cache_id |-> cache_id,
                      id |-> mk_unique_cache_str_for(module_filename, cache_id),
                      path |-> st.path] }
    /\ ncalls' = ncalls + 1
    /\ UNCHANGED <<store, fsdirs, slotVars>>

\* A call of PyTestCacheDirProvider.mk_cache_dir on a key.
PyTestMkCacheDir ==
    /\ ncalls < MaxCalls
    /\ \E k \in Keys :
         \E module_filename \in {k.module_filename}, cache_id \in {k.cache_id} :
         \E r \in {PyTestCacheDirProvider_mk_cache_dir(module_filename, cache_id,
                                                        store, fsdirs)} :
            /\ plast' = [provider |-> "pytest",
                         module_filename |-> module_filename,
                         cache_id |-> cache_id, state |-> r.state]
            /\ store' = r.store
            /\ fsdirs' = r.dirs
    /\ ncalls' = ncalls + 1
    /\ UNCHANGED <<idents, slotVars>>

\* cache_dir.mkdir(parents=True, exist_ok=True) of obtain_cache_dir on the
\* path a provider last answered.
MkdirAnswered ==
    /\ plast.state.path # NonePath
    /\ plast.state.path \notin fsdirs
    /\ fsdirs' = fsdirs \cup {plast.state.path}
    /\ UNCHANGED <<store, plast, idents, ncalls, slotVars>>

\* Someone outside the program removes a directory.
ExternalRmtree ==
    /\ \E p \in fsdirs : fsdirs' = fsdirs \ {p}
    /\ UNCHANGED <<store, plast, idents, ncalls, slotVars>>

NextKeys ==
    \/ DefaultMkCacheDir
    \/ PyTestMkCacheDir
    \/ MkdirAnswered
    \/ ExternalRmtree

SpecKeys == Init /\ [][NextKeys]_vars

\* ------------------------------------- two processes, no lock, one key
\* stale_after_s as the processes pass it.
ConcStaleChoices == {0, 1}

\* The run of create_dir_content_fn of the processes: it writes a and b.
ConcRun == [out |-> [EmptyFiles EXCEPT !["a"] = "v2", !["b"] = "v2"], ok |-> TRUE]

\* The order in which copytree copies the entries it listed.
CopyOrder == <<"a", "b", InfoName, Sentinel, "old">>
FirstToCopy(todo) ==
    CopyOrder[CHOOSE i \in 1..Len(CopyOrder) :
                 /\ CopyOrder[i] \in todo
                 /\ \A j \in 1..(i - 1) : CopyOrder[j] \notin todo]

\* The variables the processes leave alone.
nonProcVars == <<dir, fault, genCount, last, populated, run, dirTouched, keyVars>>

\* Process p moves on with locals r and leaves the slot as s; a change of
\* the slot is noted for the other processes.
StepOf(p, r, s) ==
    /\ procs' = [q \in Procs |->
                   IF q = p THEN r
                   ELSE IF s # slot THEN [procs[q] EXCEPT !.disturbed = TRUE]
                   ELSE procs[q]]
    /\ slot' = s

\* The call of the process ends with exception e.
Raise(r, e) == [r EXCEPT !.pc = "raised", !.err = e, !.at = r.pc]

\* create_dir_content_cached starts in p (its target directory exists and is
\* empty): the default provider answers whether the slot exists.
StartCall(p) ==
    /\ procs[p].pc \in {"idle", "done", "raised"}
    /\ ncalls < MaxCalls
    /\ \E stale_after_s \in ConcStaleChoices :
         StepOf(p, [IdleProc EXCEPT
                      !.pc = "ensure",
                      !.exists = DefaultCacheDirProvider_mk_cache_dir(slot).valid,
                      !.stale = EffectiveStaleAfter(stale_after_s)],
                slot)
    /\ ncalls' = ncalls + 1
    /\ UNCHANGED <<now, nonProcVars>>

\* cache_dir.mkdir(parents=True, exist_ok=True); touch_file(token)
Ensure(p) ==
    /\ procs[p].pc = "ensure"
    /\ StepOf(p, [procs[p] EXCEPT
                     !.pc = IF procs[p].exists THEN "judge" ELSE "unlink"],
              EnsureSlot(slot, now))
    /\ UNCHANGED <<now, ncalls, nonProcVars>>

\* if not cache_dir_exists: cache_last_accessed_token.unlink(); return
UnlinkToken(p) ==
    /\ procs[p].pc = "unlink"
    /\ IF slot.exists /\ slot.files[Sentinel] # NoFile
       THEN StepOf(p, [procs[p] EXCEPT !.pc = "gen", !.verdict = "new"],
                   FreshSlot(slot, now))
       ELSE StepOf(p, Raise(procs[p], "FileNotFoundError"), slot)
    /\ UNCHANGED <<now, ncalls, nonProcVars>>

\* os.stat(cache_dir).st_mtime; time.time(); the staleness test.
Judge(p) ==
    /\ procs[p].pc = "judge"
    /\ IF ~slot.exists
       THEN StepOf(p, Raise(procs[p], "FileNotFoundError"), slot)
       ELSE IF IsFresh(now, slot.mtime, procs[p].stale)
       THEN StepOf(p, [procs[p] EXCEPT !.pc = "rmdir", !.verdict = "valid",
                                       !.seen = slot.files,
                                       !.disturbed = FALSE],
                   slot)
       ELSE StepOf(p, [procs[p] EXCEPT !.pc = "destroy", !.verdict = "stale",
                                       !.disturbed = FALSE],
                   slot)
    /\ UNCHANGED <<now, ncalls, nonProcVars>>

\* A removal that tolerates a missing tree.
RmtreeSlotIgnoringErrors(s) == [err |-> "none", slot |-> NoSlot]

\* shutil.rmtree(cache_dir)
RmtreeSlot(s) ==
    IF s.exists
    THEN [err |-> "none", slot |-> NoSlot]
    ELSE [err |-> "FileNotFoundError", slot |-> s]

\* cache_dir.mkdir()
MkdirSlot(s, t) ==
    IF s.exists
    THEN [err |-> "FileExistsError", slot |-> s]
    ELSE [err |-> "none", slot |-> Mkdir(t)]

\* The stale branch, first half: shutil.rmtree(cache_dir)
Destroy(p) ==
    /\ procs[p].pc = "destroy"
    /\ \E d \in {RmtreeSlot(slot)} :
         IF d.err # "none"
         THEN StepOf(p, Raise(procs[p], d.err), d.slot)
         ELSE StepOf(p, [procs[p] EXCEPT !.pc = "recreate"], d.slot)
    /\ UNCHANGED <<now, ncalls, nonProcVars>>

\* The stale branch, second half: cache_dir.mkdir(); return
Recreate(p) ==
    /\ procs[p].pc = "recreate"
    /\ \E d \in {MkdirSlot(slot, now)} :
         IF d.err # "none"
         THEN StepOf(p, Raise(procs[p], d.err), d.slot)
         ELSE StepOf(p, [procs[p] EXCEPT !.pc = "gen"], d.slot)
    /\ UNCHANGED <<now, ncalls, nonProcVars>>

\* create_dir_content_fn(cache_state.path): it fails in a missing directory.
Generate(p) ==
    /\ procs[p].pc = "gen"
    /\ IF ~slot.exists
       THEN StepOf(p, Raise(procs[p], "GenerateError"), slot)
       ELSE StepOf(p, [procs[p] EXCEPT !.pc = "info"],
                   GenerateInSlot(slot, ConcRun, now))
    /\ UNCHANGED <<now, ncalls, nonProcVars>>

\* write_file_content(cache_info, ...)
WriteInfo(p) ==
    /\ procs[p].pc = "info"
    /\ IF ~slot.exists
       THEN StepOf(p, Raise(procs[p], "FileNotFoundError"), slot)
       ELSE StepOf(p, [procs[p] EXCEPT !.pc = "rmdir"], WriteCacheInfo(slot, now))
    /\ UNCHANGED <<now, ncalls, nonProcVars>>

\* shutil.rmtree(dir)
RmtreeDir(p) ==
    /\ procs[p].pc = "rmdir"
    /\ StepOf(p, [procs[p] EXCEPT !.pc = "list", !.tdir = NoDir], slot)
    /\ UNCHANGED <<now, ncalls, nonProcVars>>

\* shutil.copytree, first step: the entries of the slot are listed and dir
\* is created.
ListSlot(p) ==
    /\ procs[p].pc = "list"
    /\ IF ~slot.exists
       THEN StepOf(p, Raise(procs[p], "FileNotFoundError"), slot)
       ELSE StepOf(p, [procs[p] EXCEPT
                         !.pc = "copy", !.tdir = EmptyDir,
                         !.todo = {n \in Names : slot.files[n] # NoFile}],
                   slot)
    /\ UNCHANGED <<now, ncalls, nonProcVars>>

\* A copy that copies nothing.
CopyFileDropping(r, s, n) == r

\* shutil.copytree copies one entry it listed: an entry that is gone is an
\* error, reported when the copy ends.
CopyFile(r, s, n) ==
    IF s.exists /\ s.files[n] # NoFile
    THEN [r EXCEPT !.tdir.files[n] = s.files[n]]
    ELSE [r EXCEPT !.failed = TRUE]

CopyNext(p) ==
    /\ procs[p].pc = "copy"
    /\ procs[p].todo # {}
    /\ \E n \in {FirstToCopy(procs[p].todo)} :
         StepOf(p, [CopyFile(procs[p], slot, n) EXCEPT !.todo = @ \ {n}], slot)
    /\ UNCHANGED <<now, ncalls, nonProcVars>>

\* shutil.copytree returns, or raises the errors it collected.
CopyEnd(p) ==
    /\ procs[p].pc = "copy"
    /\ procs[p].todo = {}
    /\ IF procs[p].failed
       THEN StepOf(p, Raise(procs[p], "shutil.Error"), slot)
       ELSE StepOf(p, [procs[p] EXCEPT !.pc = "done"], slot)
    /\ UNCHANGED <<now, ncalls, nonProcVars>>

\* Time passes while the processes run.
ConcTick ==
    /\ now < MaxTime
    /\ now' = now + 1
    /\ UNCHANGED <<slot, procs, ncalls, nonProcVars>>

NextConc ==
    \/ ConcTick
    \/ \E p \in Procs : StartCall(p)
    \/ \E p \in Procs : Ensure(p)
    \/ \E p \in Procs : UnlinkToken(p)
    \/ \E p \in Procs : Judge(p)
    \/ \E p \in Procs : Destroy(p)
    \/ \E p \in Procs : Recreate(p)
    \/ \E p \in Procs : Generate(p)
    \/ \E p \in Procs : WriteInfo(p)
    \/ \E p \in Procs : RmtreeDir(p)
    \/ \E p \in Procs : ListSlot(p)
    \/ \E p \in Procs : CopyNext(p)
    \/ \E p \in Procs : CopyEnd(p)

SpecConc == Init /\ [][NextConc]_vars

\* ------------------------------------------------------------- the claims
\* The assertion of obtain_cache_dir (cache_mtime_s <= current_time_s) never
\* fails: the slot is never modified in the future.
MtimeNotInFuture == slot.mtime <= now

\* C1: whenever obtain_cache_dir returns valid = true, the slot at the
\* returned path holds the result of a completed earlier generation.
C1_ValidSlotHoldsCompletedGeneration ==
    (last.op # "none" /\ last.err = "none" /\ last.state.valid)
        => (last.state.path = CacheDir /\ populated.at >= 0)

\* A step that is a call of create_dir_content_cached with the default
\* provider which returns, resolved as kind.
CreateStep(kind) ==
    /\ ncalls' = ncalls + 1
    /\ last'.op = "create"
    /\ last'.provider = "default"
    /\ last'.kind = kind
    /\ last'.err = "none"

\* The most recent call was a create_dir_content_cached with the default
\* provider which returned, resolved as kind.
LastCreate(kind) ==
    /\ last.op = "create"
    /\ last.provider = "default"
    /\ last.kind = kind
    /\ last.err = "none"

\* C2: with the default provider and no copy filter, a materialization that
\* is a miss followed at once by one of the same key that is a hit leaves dir
\* with the same entries and contents after the second call as after the first.
C2_SecondMaterializationLeavesSameDir ==
    [][ ( /\ LastCreate("miss") /\ last.ignore = {} /\ ~dirTouched
          /\ CreateStep("hit") /\ last'.ignore = {}
          /\ last'.stale = last.stale )
        => dir' = dir ]_vars

\* C3: create_dir_content_cached never calls create_dir_content_fn on a hit,
\* and over a run of successful materializations that all start within the
\* time-to-live window of the first (a miss), create_dir_content_fn is called
\* exactly once in total.
C3_GeneratedOncePerWindow ==
    /\ [](run.t0 >= 0 => run.gens = 1)
    /\ []((last.op = "create" /\ last.kind = "hit") =>
            \A i \in 1..Len(last.ops) : last.ops[i] \notin {OpGenSlot, OpGenDir})
    /\ [][ (ncalls' = ncalls + 1 /\ last'.op = "create" /\ last'.kind = "hit")
           => genCount' = genCount ]_vars

\* Three materializations in one window, a miss and two hits: one generation.
C3_Witness ==
    /\ run.t0 >= 0
    /\ ncalls = 3
    /\ LastCreate("hit")
    /\ genCount = 1
    /\ run.gens = 1

\* A step that is a call (of either operation) with the default provider and
\* a time-to-live above 0 which returns.
DefaultCallStep ==
    /\ ncalls' = ncalls + 1
    /\ last'.provider = "default"
    /\ last'.err = "none"
    /\ last'.stale > 0

\* C4: with a fixed time-to-live above 0 and the default provider, the first
\* access returns an empty slot with valid = false; once a generation has
\* populated the slot at time T, every access before T + TTL returns
\* valid = true, and the first access at or after T + TTL destroys the slot,
\* recreates it empty and returns valid = false.
C4_SlotLifecycle ==
    [][ DefaultCallStep =>
          /\ ~slot.exists =>
                /\ last'.state = CacheDirState(CacheDir, FALSE)
                /\ (last'.op = "obtain" => slot' = Mkdir(now))
          /\ (populated.at >= 0 /\ populated.stale = last'.stale
                /\ now < populated.at + last'.stale)
                => last'.state = CacheDirState(CacheDir, TRUE)
          /\ (populated.at >= 0 /\ populated.stale = last'.stale
                /\ now >= populated.at + last'.stale)
                => /\ last'.state = CacheDirState(CacheDir, FALSE)
                   /\ (last'.op = "obtain" => slot' = Mkdir(now)) ]_vars

\* C5: a call of obtain_cache_dir that returns valid = true leaves the slot
\* directory's own modification time unchanged.
C5_HitKeepsSlotMtime ==
    [][ (ncalls' = ncalls + 1 /\ last'.err = "none" /\ last'.state.valid)
        => slot'.mtime = slot.mtime ]_vars

\* A step that is a call of create_dir_content_cached which returns, made
\* while dir exists and holds content of the caller's own.
CreateOverOwnContent ==
    /\ ncalls' = ncalls + 1
    /\ last'.op = "create"
    /\ last'.err = "none"
    /\ dir.exists
    /\ dir.files["old"] # NoFile

\* The entries of the slot that a copy under the filter ignore takes.
Copied(files, ignore) ==
    [n \in Names |-> IF n \in ignore THEN NoFile ELSE files[n]]

\* C6 as stated: for every resolved state (hit, miss and no-cache), a call
\* made while dir holds unrelated content ends with dir holding exactly the
\* cached or generated content, every prior entry removed.
C6_DirReplacedInEveryState ==
    [][ CreateOverOwnContent =>
          /\ dir'.files["old"] = NoFile
          /\ last'.kind \in {"hit", "miss"}
                => dir'.files = Copied(slot'.files, last'.ignore)
          /\ last'.kind = "nocache" => dir'.files = last'.out ]_vars

\* C6, amended: on a hit and on a miss dir ends as exactly the (filtered) copy
\* of the slot, every prior entry removed; in the no-cache state nothing is
\* removed: dir keeps its prior entries, but for those create_dir_content_fn
\* wrote over.
C6_DirReplacedOnHitAndMiss ==
    [][ CreateOverOwnContent =>
          /\ last'.kind \in {"hit", "miss", "nocache"}
          /\ last'.kind \in {"hit", "miss"} =>
                /\ dir'.exists
                /\ dir'.files = Copied(slot'.files, last'.ignore)
                /\ dir'.files["old"] = NoFile
          /\ last'.kind = "nocache" =>
                /\ dir'.files["old"] = dir.files["old"]
                /\ \A n \in Names :
                     dir'.files[n] = IF last'.out[n] # NoFile
                                     THEN last'.out[n] ELSE dir.files[n] ]_vars

\* A hit over a dir that held the caller's own content, all of it replaced.
C6_Witness ==
    /\ last.op = "create"
    /\ last.kind = "hit"
    /\ last.err = "none"
    /\ last.pre
    /\ dir.files["old"] = NoFile
    /\ dir.files["a"] \in {"v1", "v2"}

\* The most recent call found a slot the provider reported as existing and
\* reached the staleness test (it read the slot's st_mtime).
LastJudgedExisting ==
    /\ last.op # "none"
    /\ last.err = "none"
    /\ last.prov.path = CacheDir
    /\ last.prov.valid
    /\ last.mtime >= 0

\* C7: for a slot the provider reports as existing, obtain_cache_dir returns
\* {path, true} exactly when the current time is before the directory's
\* st_mtime plus stale_after_s; otherwise it returns {path, false} and the
\* slot is recreated empty, so that nothing of the prior generation remains
\* (after obtain_cache_dir alone the slot is empty; after a materialization
\* it holds only what the new generation wrote and the new provenance file).
\* With stale_after_s = 0 every such access is judged stale.
C7_ValidIffBeforeExpiry ==
    LastJudgedExisting =>
        /\ last.state.path = CacheDir
        /\ last.state.valid <=> (last.t < last.mtime + last.stale)
        /\ last.stale = 0 => ~last.state.valid
        /\ (~last.state.valid /\ last.op = "obtain") =>
              (slot.exists /\ slot.files = EmptyFiles /\ slot.mtime = last.t)
        /\ (~last.state.valid /\ last.op = "create") =>
              /\ last.kind = "miss"
              /\ \A n \in Names \ {InfoName} : slot.files[n] = last.out[n]
              /\ slot.files[InfoName] \in {NoFile, InfoLine}

\* A populated slot judged stale by obtain_cache_dir with stale_after_s = 0.
C7_Witness ==
    /\ LastJudgedExisting
    /\ last.op = "obtain"
    /\ last.stale = 0
    /\ ~last.state.valid
    /\ genCount >= 1
    /\ slot.files = EmptyFiles

\* C8: when the provider reports that the slot did not exist (and the
\* directory and the sentinel could be created), obtain_cache_dir returns
\* valid = false with a present path that exists on disk and is empty: the
\* sentinel has been removed.
C8_FreshSlotIsEmpty ==
    ( /\ last.op = "obtain"
      /\ last.err = "none"
      /\ last.errno = 0
      /\ last.prov.path = CacheDir
      /\ ~last.prov.valid )
    => /\ last.state = CacheDirState(CacheDir, FALSE)
       /\ slot.exists
       /\ slot.files = EmptyFiles

\* obtain_cache_dir with the default provider on a key that had no slot.
C8_Witness ==
    /\ last.op = "obtain"
    /\ last.provider = "default"
    /\ last.err = "none"
    /\ ~last.prov.valid
    /\ last.state = CacheDirState(CacheDir, FALSE)
    /\ slot.exists

\* C9: with the disabled provider, every call of create_dir_content_cached
\* calls create_dir_content_fn exactly once, on dir; it neither removes nor
\* copies dir, writes no provenance file, and leaves the slot as it was.
C9_DisabledProviderPassesThrough ==
    [][ (ncalls' = ncalls + 1 /\ last'.op = "create"
            /\ last'.provider = "disabled")
        => /\ last'.kind = "nocache"
           /\ last'.state = CacheDirState(NonePath, FALSE)
           /\ genCount' = genCount + 1
           /\ last'.ops = <<OpGenDir>>
           /\ slot' = slot
           /\ \A n \in Names :
                dir'.files[n] = IF last'.out[n] # NoFile
                                THEN last'.out[n] ELSE dir.files[n]
           /\ dir'.files[InfoName] = dir.files[InfoName]
           /\ dir'.files[Sentinel] = dir.files[Sentinel] ]_vars

\* A pass-through over a populated slot and a dir with content of its own.
C9_Witness ==
    /\ last.op = "create"
    /\ last.provider = "disabled"
    /\ last.err = "none"
    /\ last.pre
    /\ dir.files["old"] # NoFile
    /\ dir.files["b"] = "v2"
    /\ populated.at >= 0

\* The steps of a miss, in order.
MissOrder == <<OpGenSlot, OpInfo, OpRmtree, OpCopy>>

\* C10: on a miss create_dir_content_cached calls create_dir_content_fn on the
\* slot (never on dir), then writes the provenance file, holding the line
\* "{module_filename}::{cache_id}", into the slot, then removes dir and copies
\* the populated slot to it; the provenance file is not written before
\* create_dir_content_fn has returned, nor the copy made before it is written
\* (dir, until the caller touches it again, is the copy of the slot with its
\* provenance file).
C10_MissOrder ==
    (last.op = "create" /\ last.kind = "miss") =>
        /\ Len(last.ops) >= 1
        /\ Len(last.ops) <= Len(MissOrder)
        /\ \A i \in 1..Len(last.ops) : last.ops[i] = MissOrder[i]
        /\ last.err = "none" => last.ops = MissOrder
        /\ \A n \in Names \ {InfoName} : slot.files[n] = last.out[n]
        /\ slot.files[InfoName] = IF Len(last.ops) >= 2 THEN InfoLine ELSE NoFile
        /\ (last.err = "GenerateError") <=> (Len(last.ops) = 1)
        /\ (last.err = "none" /\ ~dirTouched) =>
              /\ dir.exists
              /\ dir.files = [n \in Names |-> IF n \in last.ignore
                                              THEN NoFile ELSE slot.files[n]]

\* A completed miss: the copy in dir holds the generated file and the
\* provenance line.
C10_Witness ==
    /\ last.op = "create"
    /\ last.kind = "miss"
    /\ last.err = "none"
    /\ last.ops = MissOrder
    /\ dir.files["a"] = "v2"
    /\ dir.files[InfoName] = "/m/test_mod.py::gen_fn"
    /\ slot.files[InfoName] = "/m/test_mod.py::gen_fn"

\* A call that reached the creation of the slot (the provider gave a path)
\* on a filesystem that answers writes with an errno.
LastCreationFailed ==
    /\ last.op # "none"
    /\ last.prov.path # NonePath
    /\ last.errno # 0

\* The last call's obtain_cache_dir returned state (after it, a call of
\* create_dir_content_cached went on to one of its three paths).
ObtainReturned(state) ==
    /\ last.state = state
    /\ IF last.op = "create" THEN last.kind # "none" ELSE last.err = "none"

\* The last call's obtain_cache_dir raised e (and, in a call of
\* create_dir_content_cached, no later step ran).
ObtainRaised(e) ==
    /\ last.err = e
    /\ last.kind = "none"
    /\ last.ops = << >>

\* C11 as stated: when creating the slot directory fails with permission
\* denied, obtain_cache_dir returns {path: None, valid: false} and raises
\* nothing.
C11_PermissionDeniedDegrades ==
    (LastCreationFailed /\ ~last.prov.valid /\ last.errno = EACCES)
        => ObtainReturned(CacheDirState(NonePath, FALSE))

\* C11, amended: when creating the slot directory fails, obtain_cache_dir
\* returns {path: None, valid: false} only for a read-only file system
\* (errno 30); a permission-denied failure (errno 13) is raised as OSError.
C11_OnlyReadOnlyDegrades ==
    (LastCreationFailed /\ ~last.prov.valid)
        => IF last.errno = EROFS
           THEN ObtainReturned(CacheDirState(NonePath, FALSE))
           ELSE ObtainRaised("OSError")

C11_Witness ==
    /\ LastCreationFailed
    /\ ~last.prov.valid
    /\ last.errno = EACCES
    /\ ObtainRaised("OSError")

\* C12: in obtain_cache_dir a slot creation (mkdir or sentinel touch) that
\* fails on a read-only file system yields {path: None, valid: false} with
\* no error raised; a creation failure of any other kind is raised to the
\* caller and no CacheDirState is returned (in create_dir_content_cached no
\* later step runs).
C12_ReadOnlySoftOthersRaised ==
    LastCreationFailed
        => /\ last.errno = EROFS
                => /\ ObtainReturned(CacheDirState(NonePath, FALSE))
                   /\ last.op = "create" => last.kind = "nocache"
           /\ last.errno # EROFS
                => ObtainRaised("OSError")

C12_Witness ==
    /\ LastCreationFailed
    /\ last.prov.valid
    /\ last.errno = EACCES
    /\ last.err = "OSError"
    /\ slot.exists

\* Directory b holds every entry directory a holds (and exists if a does).
KeepsEntries(a, b) ==
    /\ a.exists => b.exists
    /\ \A n \in Names : a.files[n] # NoFile => b.files[n] # NoFile

\* A step that is a call of create_dir_content_cached.
MaterializerStep ==
    /\ ncalls' = ncalls + 1
    /\ last'.op \in {"create", "create_on_slot"}

\* The slot as the obtain_cache_dir call of the step returned it.
SlotObtainedInStep ==
    obtain_cache_dir(last'.provider, last'.stale, slot, now, fault).slot

\* The call of the step found the slot existing and judged it stale.
JudgedStaleInStep ==
    /\ last'.prov.valid
    /\ last'.mtime >= 0
    /\ ~IsFresh(last'.t, last'.mtime, last'.stale)

\* C13 as stated: the steps of create_dir_content_cached after
\* obtain_cache_dir returned never remove the slot directory nor delete
\* entries from it, whatever target directory the caller passes; a step in
\* which the slot loses entries is a call that judged the slot stale.
C13_MaterializerKeepsSlot ==
    [][/\ MaterializerStep => KeepsEntries(SlotObtainedInStep, slot')
       /\ ~KeepsEntries(slot, slot') => JudgedStaleInStep]_vars

\* C13, amended: for a target directory outside the slot the steps after
\* obtain_cache_dir returned never remove the slot nor delete entries from
\* it, and the slot loses entries only in a call that judged it stale; when
\* the target directory is the slot itself, rmtree(dir) removes the slot.
C13_MaterializerKeepsSlotOutsideTarget ==
    [][/\ (MaterializerStep /\ last'.op = "create")
            => KeepsEntries(SlotObtainedInStep, slot')
       /\ (~KeepsEntries(slot, slot') /\ last'.op # "create_on_slot")
            => JudgedStaleInStep
       /\ (MaterializerStep /\ last'.op = "create_on_slot"
              /\ last'.err = "FileNotFoundError")
            => ~slot'.exists]_vars

C13_Witness ==
    /\ last.op = "create"
    /\ last.kind = "miss"
    /\ last.err = "none"
    /\ last.ops = MissOrder
    /\ slot.files["a"] # NoFile
    /\ slot.files[InfoName] = InfoLine
    /\ dir.files["a"] # NoFile

\* A step that is a call of obtain_cache_dir or create_dir_content_cached.
CallStep == ncalls' = ncalls + 1

\* C14: obtain_cache_dir never returns path None with valid = true, for any
\* provider and any state of the filesystem: when the provider answers no
\* path with valid = true the call fails its assertion and the slot's
\* filesystem is untouched; when the provider answers no path with
\* valid = false the call returns {None, false} and the slot's filesystem
\* is untouched.
C14_NoPathNeverValid ==
    [][CallStep =>
        /\ ~(last'.state.path = NonePath /\ last'.state.valid)
        /\ last'.prov = CacheDirState(NonePath, TRUE)
             => (ObtainRaised("AssertionError")' /\ slot' = slot)
        /\ last'.prov = CacheDirState(NonePath, FALSE)
             => (ObtainReturned(CacheDirState(NonePath, FALSE))'
                 /\ slot' = slot)]_vars

C14_Witness ==
    /\ last.provider = "broken"
    /\ last.prov = CacheDirState(NonePath, TRUE)
    /\ ObtainRaised("AssertionError")
    /\ slot.exists
    /\ slot.files["a"] # NoFile

\* A step that is a call of PyTestCacheDirProvider.mk_cache_dir.
PyTestCallStep == CallStep /\ plast'.provider = "pytest"

\* C15: test-runner-integrated provider, over any sequence of mk_cache_dir
\* calls and external removals of directories: a call whose key is recorded
\* in the store with a path that still exists returns that path with
\* valid = true and changes nothing; any other call allocates a directory
\* from the store, records key -> that path and returns it with
\* valid = false; after every call the store maps the key to the returned
\* path and that path exists.
C15_PyTestProviderContract ==
    [][PyTestCallStep =>
        LET key == PyTestCacheKey(plast'.module_filename, plast'.cache_id)
            recorded == store[key]
            returned == plast'.state
        IN  /\ IF recorded # NonePath /\ recorded \in fsdirs
               THEN /\ returned = CacheDirState(recorded, TRUE)
                    /\ store' = store
                    /\ fsdirs' = fsdirs
               ELSE /\ ~returned.valid
                    /\ returned.path =
                         PyTestDirPath(plast'.module_filename, plast'.cache_id)
                    /\ store' = [store EXCEPT ![key] = returned.path]
                    /\ fsdirs' = fsdirs \cup {returned.path}
            /\ store'[key] = returned.path
            /\ returned.path \in fsdirs']_vars

\* A call that found its key recorded, while the directory recorded for
\* another key has been removed.
C15_Witness ==
    /\ plast.provider = "pytest"
    /\ plast.state.valid
    /\ store[PyTestCacheKey(plast.module_filename, plast.cache_id)]
          = plast.state.path
    /\ \E k \in CacheKeys : store[k] # NonePath /\ store[k] \notin fsdirs

\* C16: equal (module_filename, cache_id) pairs give the same identifier and
\* the same default slot path, and unequal pairs give different
\* identifiers and different slot paths (the hash taken as injective).
C16_DistinctKeysDistinctSlots ==
    \A a, b \in idents :
        IF a.module_filename = b.module_filename /\ a.cache_id = b.cache_id
        THEN a.id = b.id /\ a.path = b.path
        ELSE a.id # b.id /\ a.path # b.path

\* Process p was told valid = true and its call has ended.
HitEnded(p) == procs[p].verdict = "valid" /\ procs[p].pc \in {"done", "raised"}

\* Process q judged the slot stale and has removed it.
HasDestroyed(q) ==
    /\ procs[q].verdict = "stale"
    /\ procs[q].pc \notin {"destroy", "raised"}

\* C17: two processes run create_dir_content_cached on the same key without
\* a lock.  A process told valid = true whose slot no other process changed
\* after the verdict ends with its target holding the slot as the verdict
\* saw it; a state is reachable (C17_Witness) in which a process told
\* valid = true raised during its copy, its target holding a part of the
\* slot only, because the other process judged the slot stale and destroyed
\* it meanwhile.
C17_HitCopiesSlotUnlessDisturbed ==
    \A p \in Procs :
        (HitEnded(p) /\ ~procs[p].disturbed)
            => /\ procs[p].pc = "done"
               /\ procs[p].tdir = [exists |-> TRUE, files |-> procs[p].seen]

C17_Witness ==
    \E p, q \in Procs :
        /\ p # q
        /\ HitEnded(p)
        /\ procs[p].pc = "raised"
        /\ procs[p].at = "copy"
        /\ procs[p].tdir.exists
        /\ procs[p].tdir.files # EmptyFiles
        /\ procs[p].tdir.files # procs[p].seen
        /\ HasDestroyed(q)

\* A step of process p from position pc.
ProcStep(p, pc) == procs[p].pc = pc /\ procs'[p].pc # pc

\* C18: two processes run obtain_cache_dir on the same key and both judge
\* the slot stale.  The destroy-then-recreate step does not tolerate the
\* other destroyer: rmtree of a slot already removed raises, and so does
\* mkdir of a slot already recreated; a state is reachable (C18_Witness) in
\* which both processes judged the slot stale and one of them raised in
\* that step.
C18_SecondDestroyerRaises ==
    [][\A p \in Procs :
        /\ ProcStep(p, "destroy")
             => IF slot.exists
                THEN procs'[p].pc = "recreate" /\ ~slot'.exists
                ELSE procs'[p].pc = "raised"
                       /\ procs'[p].err = "FileNotFoundError"
        /\ ProcStep(p, "recreate")
             => IF slot.exists
                THEN procs'[p].pc = "raised"
                       /\ procs'[p].err = "FileExistsError"
                ELSE procs'[p].pc = "gen" /\ slot' = Mkdir(now)]_vars

C18_Witness ==
    \E p, q \in Procs :
        /\ p # q
        /\ procs[p].verdict = "stale"
        /\ procs[p].pc = "raised"
        /\ procs[p].err = "FileNotFoundError"
        /\ procs[p].at = "destroy"
        /\ procs[p].disturbed
        /\ HasDestroyed(q)

\* A step that is a call of create_dir_content_cached with a target outside
\* the slot, made while the target directory does not exist.
CreateStepWithoutDir ==
    /\ CallStep
    /\ last'.op = "create"
    /\ ~dir.exists

\* The last call was a miss that raised at the removal of the missing
\* target, after its generation.
MissRaisedAtRmtree ==
    /\ last.op = "create"
    /\ last.kind = "miss"
    /\ last.err = "FileNotFoundError"
    /\ last.ops = <<OpGenSlot, OpInfo, OpRmtree>>

\* C19: create_dir_content_cached needs target_dir to exist on the hit and
\* miss paths: without it the call raises at rmtree(dir).  On the miss path
\* this is after create_dir_content_fn ran in the slot and the provenance
\* file was written: the slot stays populated, the target is not created,
\* and the next call for the key within the time-to-live is a hit that does
\* not call create_dir_content_fn.
C19_MissingTargetRaisesAtRmtree ==
    [][/\ (CreateStepWithoutDir /\ last'.kind = "hit")
            => /\ last'.err = "FileNotFoundError"
               /\ last'.ops = <<OpRmtree>>
               /\ genCount' = genCount
               /\ ~dir'.exists
       /\ (CreateStepWithoutDir /\ last'.kind = "miss"
              /\ last'.err # "GenerateError")
            => /\ MissRaisedAtRmtree'
               /\ genCount' = genCount + 1
               /\ slot'.exists
               /\ slot'.files[InfoName] = InfoLine
               /\ \A n \in Names :
                     last'.out[n] # NoFile => slot'.files[n] = last'.out[n]
               /\ populated'.at >= 0
               /\ ~dir'.exists
       /\ (MissRaisedAtRmtree /\ CallStep /\ last'.provider = "default"
              /\ now < populated.at + last'.stale)
            => /\ last'.state = CacheDirState(CacheDir, TRUE)
               /\ last'.op = "create" => last'.kind = "hit"
               /\ genCount' = genCount]_vars

C19_Witness ==
    /\ MissRaisedAtRmtree
    /\ ~dir.exists
    /\ ~dirTouched
    /\ slot.files["a"] # NoFile
    /\ slot.files[InfoName] = InfoLine
    /\ populated.at >= 0

\* C20: on a read-only file system obtain_cache_dir returns {None, false}
\* also when a populated slot that is not stale exists for the key (the
\* touch of the sentinel fails although the mkdir has nothing to do);
\* create_dir_content_cached then calls create_dir_content_fn(dir), does not
\* reuse the cached content, and the slot is left as it was.
C20_ReadOnlyIgnoresExistingSlot ==
    [][(CallStep /\ fault = EROFS /\ last'.provider = "default" /\ slot.exists)
        => /\ last'.prov = CacheDirState(CacheDir, TRUE)
           /\ ObtainReturned(CacheDirState(NonePath, FALSE))'
           /\ slot' = slot
           /\ last'.op = "create"
                => /\ last'.kind = "nocache"
                   /\ last'.ops = <<OpGenDir>>
                   /\ genCount' = genCount + 1]_vars

C20_Witness ==
    /\ last.op = "create"
    /\ last.provider = "default"
    /\ last.errno = EROFS
    /\ last.prov.valid
    /\ last.kind = "nocache"
    /\ last.err = "none"
    /\ populated.at >= 0
    /\ slot.files["a"] # NoFile
    /\ IsFresh(last.t, slot.mtime, last.stale)
    /\ dir.files["a"] = last.out["a"]

====
